---- MODULE Spec2Model ----
(***************************************************************************)
(* Layered configuration resolution of conda's new config package:         *)
(* conda/config/main.py (ConfigSource variants, file readers) and          *)
(* conda/config/context.py (Context, create_context).                      *)
(*                                                                         *)
(* conda/config/condarc.py (get_condarc_obj, CondarcConfig) and            *)
(* conda/config/system.py (SystemConfiguration) are imported by these      *)
(* files; their definitions below follow the written specification.        *)
(***************************************************************************)
EXTENDS Integers, Sequences, FiniteSets, TLC

(***************************************************************************)
(* Bounds of the model.                                                    *)
(***************************************************************************)
\* number of distinct file locations on the modelled disk
NumPaths == 2
\* the process log is followed up to this many records
MaxLog == 2
MaxVerbose == 3
MaxReporters == 2

Paths == 1..NumPaths

(***************************************************************************)
(* Values.  Every configuration value is a record with the same fields so  *)
(* that values of different Python types stay comparable:                   *)
(*   t = "scalar"  s holds the scalar                                       *)
(*   t = "seq"     q holds the entries                                      *)
(*   t = "NULL"    conda.common.constants.NULL, the "unset" sentinel        *)
(*   t = "None"    Python's None                                            *)
(*   t = "map"     q holds the inner keys with their values, in order       *)
(* A sequence entry is a bare string (m = FALSE, k = <<name>>) or a mapping *)
(* (m = TRUE, k = its keys in order, o = its options).  An entry of a map    *)
(* value is a pair (k = <<inner key>>, o = its value).                      *)
(***************************************************************************)
Scalar(s) == [t |-> "scalar", s |-> s, q |-> <<>>]
SeqVal(q) == [t |-> "seq", s |-> "", q |-> q]
NULL == [t |-> "NULL", s |-> "", q |-> <<>>]
NoneVal == [t |-> "None", s |-> "", q |-> <<>>]
Bare(n) == [m |-> FALSE, k |-> <<n>>, o |-> ""]
MapEntry(keys, o) == [m |-> TRUE, k |-> keys, o |-> o]
MapVal(q) == [t |-> "map", s |-> "", q |-> q]
Pair(ik, v) == [m |-> FALSE, k |-> <<ik>>, o |-> v]

\* the inner keys of a map value, and the value it holds under one of them
inner_keys(v) == {v.q[i].k[1] : i \in 1..Len(v.q)}
inner_get(v, ik) == v.q[CHOOSE i \in 1..Len(v.q) : v.q[i].k[1] = ik].o

\* the empty key->value document
EmptyDoc == [x \in {} |-> NoneVal]

(***************************************************************************)
(* Inputs: the documents a condarc file may hold, the parsed-argument       *)
(* namespaces a caller may pass, and the keys a reader may ask for.         *)
(***************************************************************************)
DocA ==
  ("quiet" :> Scalar("yes")) @@ ("subdir" :> Scalar("linux-aarch64"))
    @@ ("channels" :> SeqVal(<<Bare("defaults")>>))
    @@ ("proxy_servers" :>
          MapVal(<<Pair("http", "proxy-a"), Pair("https", "secure-a")>>))
DocB ==
  ("quiet" :> Scalar("no")) @@ ("solver" :> Scalar("libmamba"))
    @@ ("channels" :> SeqVal(<<Bare("localhost"), Bare("defaults")>>))
    @@ ("proxy_servers" :>
          MapVal(<<Pair("http", "proxy-b"), Pair("ftp", "ftp-b")>>))

\* BASE_CONDARC of the tests: a bare channel and one with options
DocC ==
  ("always_yes" :> Scalar("yes"))
    @@ ("channels" :>
          SeqVal(<<Bare("defaults"),
                   MapEntry(<<"http://localhost">>, "fetch_type: blah")>>))
\* channel entries that are mappings without a key and with two keys
DocD ==
  ("channels" :>
     SeqVal(<<MapEntry(<<>>, ""), Bare("defaults"),
              MapEntry(<<"conda-forge", "bioconda">>, "type: local")>>))

Docs == {DocA, DocB, DocC, DocD}

\* what a path holds: nothing, bytes that do not parse, or a document
FileStates ==
  {[st |-> "absent", doc |-> EmptyDoc], [st |-> "malformed", doc |-> EmptyDoc]}
    \cup {[st |-> "ok", doc |-> d] : d \in Docs}

\* Namespace objects as cx create builds them (cmd_create.py:231-276):
\* unset options are left at NULL, platform repeats subdir
ArgsEmpty == EmptyDoc
ArgsQuiet ==
  ("quiet" :> Scalar("yes")) @@ ("subdir" :> NULL) @@ ("platform" :> NoneVal)
ArgsSubdir ==
  ("quiet" :> Scalar("no")) @@ ("subdir" :> Scalar("win-64"))
    @@ ("platform" :> Scalar("win-64"))

ArgsSet == {ArgsEmpty, ArgsQuiet, ArgsSubdir}

LookupKeys ==
  {"quiet", "subdir", "channels", "solver", "platform", "active_env_name",
   "proxy_servers", "no_such_key"}

\* the process environment of the tests, each value as its pieces, and the
\* delimiter-based decoding of a multi-valued variable
Environ ==
  ("CONDA_CHANNELS" :> <<"defaults", ",", "localhost", ",", "testing">>)
    @@ ("CONDA_PINNED_PACKAGES" :> <<"test_1", "&", "test_2", "&", "test_3">>)
    @@ ("CONDA_ENVS_DIRS" :> <<"/home/test", ":", "/var/lib/test">>)

decode_env(pieces, delimiter) == SelectSeq(pieces, LAMBDA x : x # delimiter)

FileTypes == {"yaml", "json"}

\* all lists of distinct paths
RECURSIVE ListsOfLen(_)
ListsOfLen(n) ==
  IF n = 0 THEN {<<>>}
  ELSE {Append(l, p) : l \in ListsOfLen(n - 1), p \in Paths}

NoRepeat(l) == \A i, j \in 1..Len(l) : i # j => l[i] # l[j]

PathLists == {l \in UNION {ListsOfLen(n) : n \in 0..NumPaths} : NoRepeat(l)}

VARIABLES
  fs,             \* the disk: what each path holds
  mergeDirection, \* precedence direction of the file merge
  invocation,     \* how this process builds its Context, and from what
  context,        \* the process-wide Context (built = FALSE before the first)
  log,            \* records written with logger.error
  raised,         \* exception that ended the last construction, or "none"
  res,            \* outcome of the last read of the Context
  prev,           \* the read the caller made just before it changed its Namespace
  argv,           \* cx: the options and the command parsed from the command line
  pc,             \* cx: where main_impl stands
  base_context,   \* cx: the object the name conda.base.context.context refers to
  outcome,        \* cx: what the run did so far
  plugin_subcommands, \* cx: what plugin_manager.get_subcommands() gives
  app,            \* cx: who registered each command name of the typer app
  call,           \* library: the call being made, with what it works on
  ret,            \* library: how the call ended
  streams         \* library: what was written to each reporter output

config_vars == <<fs, mergeDirection, invocation, context, log, raised, res, prev>>
cli_vars == <<argv, pc, base_context, outcome, plugin_subcommands, app>>
lib_vars == <<call, ret, streams>>

vars ==
  <<fs, mergeDirection, invocation, context, log, raised, res, prev,
    argv, pc, base_context, outcome, plugin_subcommands, app,
    call, ret, streams>>

(***************************************************************************)
(* conda/config/main.py: the file readers.                                 *)
(***************************************************************************)
Exists(path) == fs[path].st # "absent"

\* read_yaml_file letting the yaml.YAMLError through
read_yaml_file_uncaught(path) ==
  CASE fs[path].st = "absent" ->
         [ret |-> "raise", exc |-> "FileNotFoundError", doc |-> EmptyDoc,
          logged |-> <<>>]
    [] fs[path].st = "malformed" ->
         [ret |-> "raise", exc |-> "YAMLError", doc |-> EmptyDoc,
          logged |-> <<>>]
    [] OTHER ->
         [ret |-> "doc", exc |-> "none", doc |-> fs[path].doc,
          logged |-> <<>>]

\* read_yaml_file: path.open raises FileNotFoundError for an absent path (not
\* caught); a yaml.YAMLError is caught, logged, and the function falls off
\* its end, returning None.  The logged exception carries the name of the
\* stream it was read from.
read_yaml_file(path) ==
  CASE fs[path].st = "absent" ->
         [ret |-> "raise", exc |-> "FileNotFoundError", doc |-> EmptyDoc,
          logged |-> <<>>]
    [] fs[path].st = "malformed" ->
         [ret |-> "None", exc |-> "none", doc |-> EmptyDoc,
          logged |-> <<[exc |-> "YAMLError", name |-> path]>>]
    [] OTHER ->
         [ret |-> "doc", exc |-> "none", doc |-> fs[path].doc,
          logged |-> <<>>]

\* get_config_file_parser: only yaml has a parser; any other type falls off
\* the end and yields None
get_config_file_parser(file_type) ==
  IF file_type = "yaml" THEN "read_yaml_file" ELSE "None"

\* calling the parser object held by a ConfigFileSource
call_parser(file_parser, path) ==
  IF file_parser = "read_yaml_file" THEN read_yaml_file(path)
  ELSE [ret |-> "raise", exc |-> "TypeError", doc |-> EmptyDoc,
        logged |-> <<>>]

(***************************************************************************)
(* conda/config/condarc.py, after the written specification (4.2).         *)
(***************************************************************************)
CondarcConfig == EmptyDoc

\* the merge with a map of hi replacing the map of lo as a whole
map_replace_MergeDocs(hi, lo) ==
  [k \in (DOMAIN hi) \cup (DOMAIN lo) |->
     IF k \in DOMAIN hi /\ k \in DOMAIN lo
     THEN IF hi[k].t = "seq" /\ lo[k].t = "seq"
          THEN SeqVal(hi[k].q \o lo[k].q)
          ELSE hi[k]
     ELSE IF k \in DOMAIN hi THEN hi[k] ELSE lo[k]]

\* key-by-key merge of two documents, hi having precedence over lo:
\* a scalar of hi wins outright, two sequences are concatenated, two maps
\* are merged one level deep (the inner keys of hi, then those only lo has)
MergeDocs(hi, lo) ==
  [k \in (DOMAIN hi) \cup (DOMAIN lo) |->
     IF k \in DOMAIN hi /\ k \in DOMAIN lo
     THEN IF hi[k].t = "seq" /\ lo[k].t = "seq"
          THEN SeqVal(hi[k].q \o lo[k].q)
          ELSE IF hi[k].t = "map" /\ lo[k].t = "map"
          THEN MapVal(hi[k].q
                        \o SelectSeq(lo[k].q,
                                     LAMBDA e : e.k[1] \notin inner_keys(hi[k])))
          ELSE hi[k]
     ELSE IF k \in DOMAIN hi THEN hi[k] ELSE lo[k]]

Reverse(l) == [i \in 1..Len(l) |-> l[Len(l) + 1 - i]]

\* the parsed documents in precedence order, highest first
PrecedenceOrder(docs) ==
  IF mergeDirection = "first_wins" THEN docs ELSE Reverse(docs)

RECURSIVE MergeAll(_)
MergeAll(docs) ==
  IF Len(docs) = 0 THEN CondarcConfig
  ELSE MergeDocs(Head(docs), MergeAll(Tail(docs)))

\* reads the paths in order: an absent path is skipped, a file that does not
\* parse contributes nothing, an exception of the parser ends the reading
RECURSIVE parse_all(_, _, _, _)
parse_all(config_files, file_parser, docs, logged) ==
  IF Len(config_files) = 0
  THEN [ret |-> "ok", exc |-> "none", docs |-> docs, logged |-> logged]
  ELSE IF ~Exists(Head(config_files))
  THEN parse_all(Tail(config_files), file_parser, docs, logged)
  ELSE LET r == call_parser(file_parser, Head(config_files))
       IN  CASE r.ret = "raise" ->
                  [ret |-> "raise", exc |-> r.exc, docs |-> docs,
                   logged |-> logged \o r.logged]
             [] r.ret = "None" ->
                  parse_all(Tail(config_files), file_parser, docs,
                            logged \o r.logged)
             [] OTHER ->
                  parse_all(Tail(config_files), file_parser,
                            Append(docs, r.doc), logged \o r.logged)

skip_nothing_get_condarc_obj(config_files, file_parser) ==
  LET r == IF \E i \in 1..Len(config_files) : ~Exists(config_files[i])
           THEN [ret |-> "raise", exc |-> "FileNotFoundError",
                 docs |-> <<>>, logged |-> <<>>]
           ELSE parse_all(config_files, file_parser, <<>>, <<>>)
  IN  [ret |-> r.ret, exc |-> r.exc, logged |-> r.logged,
       data |-> MergeAll(PrecedenceOrder(r.docs))]

get_condarc_obj(config_files, file_parser) ==
  LET r == parse_all(config_files, file_parser, <<>>, <<>>)
  IN  [ret |-> r.ret, exc |-> r.exc, logged |-> r.logged,
       data |-> MergeAll(PrecedenceOrder(r.docs))]

\* the standard locations searched for condarc files
SystemSearchPath == <<1>>

(***************************************************************************)
(* conda/config/main.py: the sources.                                      *)
(***************************************************************************)
first_file_only_merge(file_parser, config_files) ==
  IF Len(config_files) = 0
  THEN [ret |-> "ok", exc |-> "none", logged |-> <<>>,
        data |-> CondarcConfig]
  ELSE get_condarc_obj(<<Head(config_files)>>, file_parser)

\* _merge answering an empty list with a document of defaults
defaults_merge(file_parser, config_files) ==
  IF Len(config_files) = 0
  THEN [ret |-> "ok", exc |-> "none", logged |-> <<>>,
        data |-> ("quiet" :> Scalar("no"))]
  ELSE get_condarc_obj(config_files, file_parser)

\* ConfigFileSource._merge
ConfigFileSource_merge(file_parser, config_files) ==
  IF Len(config_files) = 0
  THEN [ret |-> "ok", exc |-> "none", logged |-> <<>>,
        data |-> CondarcConfig]
  ELSE get_condarc_obj(config_files, file_parser)

\* ConfigFileSource.__init__
ConfigFileSource_init(file_type, config_files) ==
  LET parser == get_config_file_parser(file_type)
      m == ConfigFileSource_merge(parser, config_files)
  IN  [ret |-> m.ret, exc |-> m.exc, logged |-> m.logged,
       src |-> [kind |-> "file", file_type |-> file_type,
                file_parser |-> parser, config_files |-> config_files,
                data |-> m.data, args_obj |-> EmptyDoc]]

\* CLIConfigSource.__init__
CLIConfigSource_init(args_obj) ==
  [kind |-> "cli", file_type |-> "", file_parser |-> "",
   config_files |-> <<>>, data |-> EmptyDoc, args_obj |-> args_obj]

ConfigFileSource_has_parameter(src, name) == name \in DOMAIN src.data
ConfigFileSource_get_parameter(src, name) == src.data[name]

\* hasattr / getattr on the Namespace: a key left at NULL is an attribute too
CLIConfigSource_has_parameter(src, name) == name \in DOMAIN src.args_obj
CLIConfigSource_get_parameter(src, name) == src.args_obj[name]

has_parameter(src, name) ==
  IF src.kind = "cli" THEN CLIConfigSource_has_parameter(src, name)
  ELSE ConfigFileSource_has_parameter(src, name)

get_parameter(src, name) ==
  IF src.kind = "cli" THEN CLIConfigSource_get_parameter(src, name)
  ELSE ConfigFileSource_get_parameter(src, name)

(***************************************************************************)
(* conda/config/system.py, after the written specification: static facts   *)
(* derived from the environment and the condarc files of the standard      *)
(* locations that are present.                                             *)
(***************************************************************************)
SystemFacts ==
  ("platform" :> Scalar("linux-64")) @@ ("active_env_name" :> Scalar("base"))

SystemConfiguration ==
  [attrs |-> SystemFacts,
   valid_condarc_files |-> SelectSeq(SystemSearchPath, Exists)]

(***************************************************************************)
(* conda/config/context.py: Context.                                       *)
(***************************************************************************)
\* Context.__init__
Context_init(system_config, config_sources) ==
  [built |-> TRUE, system_config |-> system_config,
   config_sources |-> config_sources]

NoContext ==
  [built |-> FALSE,
   system_config |-> [attrs |-> EmptyDoc, valid_condarc_files |-> <<>>],
   config_sources |-> <<>>]

HasCall(i, r) == [op |-> "has_parameter", src |-> i, ret |-> r]
GetCall(i) == [op |-> "get_parameter", src |-> i, ret |-> TRUE]
SysCall(r) == [op |-> "hasattr_system", src |-> 0, ret |-> r]

\* what the AttributeError of Context.__getattr__ says: the attribute asked
\* for and the three places it was not found on
not_found_message(item) ==
  <<item, "Context", "Context._config_sources", "Context._system_config">>

\* the loop of Context.__getattr__ from source i on; calls lists the calls
\* made so far.  origin is the index of the source that answered, 0 for the
\* system configuration, -1 when the lookup failed; names is the key the
\* error message names, message what the error message lists, warned the
\* warnings the read issued.
RECURSIVE getattr_from(_, _, _, _)
getattr_from(ctx, item, i, calls) ==
  IF i > Len(ctx.config_sources)
  THEN LET has_sys == item \in DOMAIN ctx.system_config.attrs
       IN  IF has_sys
           THEN [op |-> "getattr", key |-> item, outcome |-> "value",
                 value |-> ctx.system_config.attrs[item], origin |-> 0,
                 names |-> "", message |-> <<>>, warned |-> <<>>,
                 calls |-> Append(calls, SysCall(TRUE))]
           ELSE [op |-> "getattr", key |-> item,
                 outcome |-> "AttributeError", value |-> NoneVal,
                 origin |-> -1, names |-> item,
                 message |-> not_found_message(item), warned |-> <<>>,
                 calls |-> Append(calls, SysCall(FALSE))]
  ELSE LET config == ctx.config_sources[i]
           has_param == has_parameter(config, item)
       IN  IF has_param
           THEN [op |-> "getattr", key |-> item, outcome |-> "value",
                 value |-> get_parameter(config, item), origin |-> i,
                 names |-> "", message |-> <<>>, warned |-> <<>>,
                 calls |-> calls \o <<HasCall(i, TRUE), GetCall(i)>>]
           ELSE getattr_from(ctx, item, i + 1,
                             Append(calls, HasCall(i, FALSE)))

\* variants of the lookup: the last matching source answers; the system
\* configuration is asked first; the system configuration is never asked;
\* a key found nowhere yields None
last_match_getattr(ctx, item) ==
  LET S == {i \in 1..Len(ctx.config_sources) :
              has_parameter(ctx.config_sources[i], item)}
  IN  IF S = {} THEN getattr_from(ctx, item, 1, <<>>)
      ELSE LET i == CHOOSE x \in S : \A y \in S : y <= x
           IN  [op |-> "getattr", key |-> item, outcome |-> "value",
                value |-> get_parameter(ctx.config_sources[i], item),
                origin |-> i, names |-> "", message |-> <<>>,
                warned |-> <<>>,
                calls |-> <<HasCall(i, TRUE), GetCall(i)>>]

system_first_getattr(ctx, item) ==
  IF item \in DOMAIN ctx.system_config.attrs
  THEN [op |-> "getattr", key |-> item, outcome |-> "value",
        value |-> ctx.system_config.attrs[item], origin |-> 0,
        names |-> "", message |-> <<>>, warned |-> <<>>,
        calls |-> <<SysCall(TRUE)>>]
  ELSE getattr_from(ctx, item, 1, <<>>)

no_system_getattr(ctx, item) ==
  LET r == getattr_from(ctx, item, 1, <<>>)
  IN  IF r.origin = 0
      THEN [r EXCEPT !.outcome = "AttributeError", !.value = NoneVal,
                     !.origin = -1, !.names = item,
                     !.message = not_found_message(item)]
      ELSE r

none_default_getattr(ctx, item) ==
  LET r == getattr_from(ctx, item, 1, <<>>)
  IN  IF r.outcome = "AttributeError"
      THEN [r EXCEPT !.outcome = "value", !.names = "", !.message = <<>>]
      ELSE r

\* the lookup asking every source whether it has the key before it takes
\* the value of the first that does
probe_all_getattr(ctx, item) ==
  LET r == getattr_from(ctx, item, 1, <<>>)
  IN  IF r.origin > 0
      THEN [r EXCEPT !.calls =
                       [i \in 1..Len(ctx.config_sources) |->
                          HasCall(i, has_parameter(ctx.config_sources[i],
                                                   item))]
                         \o <<GetCall(r.origin)>>]
      ELSE r

\* Context.__getattr__
Context_getattr(ctx, item) == getattr_from(ctx, item, 1, <<>>)

\* the names _get_channel_names collects from the entries of a sequence: a
\* string gives itself, a mapping with keys its first key, a mapping without
\* keys nothing
RECURSIVE channel_names_of(_)
channel_names_of(entries) ==
  IF Len(entries) = 0 THEN <<>>
  ELSE LET channel == Head(entries)
           rest == channel_names_of(Tail(entries))
       IN  IF channel.m
           THEN IF Len(channel.k) > 0
                THEN <<Bare(channel.k[1])>> \o rest
                ELSE rest
           ELSE <<Bare(channel.k[1])>> \o rest

\* _get_channel_names leaving out the entries that are mappings
bare_only_get_channel_names(ctx) ==
  LET r == Context_getattr(ctx, "channels")
  IN  IF r.outcome # "value" THEN [r EXCEPT !.op = "channels"]
      ELSE [r EXCEPT !.op = "channels",
                     !.value = SeqVal(SelectSeq(r.value.q,
                                                LAMBDA e : ~e.m))]

\* Context._get_channel_names (the property Context.channels); the error of
\* the lookup of "channels" passes through, and a value that is no sequence
\* (None, NULL; no source of this model holds one under channels) cannot be
\* iterated
Context_get_channel_names(ctx) ==
  LET r == Context_getattr(ctx, "channels")
  IN  IF r.outcome # "value" THEN [r EXCEPT !.op = "channels"]
      ELSE IF r.value.t # "seq"
      THEN [r EXCEPT !.op = "channels", !.outcome = "TypeError",
                     !.value = NoneVal]
      ELSE [r EXCEPT !.op = "channels",
                     !.value = SeqVal(channel_names_of(r.value.q))]

\* channel_parameters handing out the names instead of the raw entries
names_channel_parameters(ctx) ==
  [Context_get_channel_names(ctx) EXCEPT !.op = "channel_parameters"]

\* Context.channel_parameters
Context_channel_parameters(ctx) ==
  [Context_getattr(ctx, "channels") EXCEPT !.op = "channel_parameters"]

\* Context.experimental_solver: warns, then looks up solver
Context_experimental_solver(ctx) ==
  [Context_getattr(ctx, "solver") EXCEPT
     !.op = "experimental_solver",
     !.warned = <<"PendingDeprecationWarning">>]

\* create_context; args_obj and extra_config_files may be None
create_context(args_obj, extra_config_files) ==
  LET system_config == SystemConfiguration
      config_files ==
        IF extra_config_files.none
        THEN system_config.valid_condarc_files
        ELSE system_config.valid_condarc_files \o extra_config_files.files
      f == ConfigFileSource_init("yaml", config_files)
      ns == IF args_obj.none THEN EmptyDoc ELSE args_obj.ns
      cli_config_source == CLIConfigSource_init(ns)
      config_sources == <<cli_config_source, f.src>>
  IN  [ret |-> f.ret, exc |-> f.exc, logged |-> f.logged,
       ctx |-> Context_init(system_config, config_sources)]

(***************************************************************************)
(* conda/cli_new: the cx command line.  Its commands work on the object    *)
(* imported from conda.base.context, not on a Context of conda/config.     *)
(***************************************************************************)
Commands == {"create", "list"}

\* what typer parsed: the global options, the command, and for create its
\* --name and --prefix (None when not given)
ArgvSet ==
  [verbose : 0..MaxVerbose, debug : BOOLEAN, trace : BOOLEAN,
   no_plugins : BOOLEAN, command : Commands,
   name : {NoneVal, Scalar("myenv")},
   prefix : {NoneVal, Scalar("/opt/myenv")}]

\* the argparse-compatible namespaces, all with the same fields; an
\* attribute a namespace does not carry holds its default
NoArgs ==
  [kind |-> "none", verbosity |-> 0, debug |-> FALSE, trace |-> FALSE,
   no_plugins |-> FALSE, name |-> NoneVal, prefix |-> NoneVal]

\* pre_command_callback: the verbosity it computes
verbosity_of(verbose, debug, trace) ==
  LET v1 == verbose
      v2 == IF debug THEN 2 ELSE v1
  IN  IF trace THEN 3 ELSE v2

\* pre_command_callback: pre_args
pre_args(a) ==
  [NoArgs EXCEPT !.kind = "pre_args",
                 !.verbosity = verbosity_of(a.verbose, a.debug, a.trace),
                 !.debug = a.debug, !.trace = a.trace,
                 !.no_plugins = a.no_plugins]

\* create: the Namespace it hands to the context and to execute
create_args(a) ==
  [NoArgs EXCEPT !.kind = "create",
                 !.name = IF a.prefix = NoneVal THEN a.name ELSE NoneVal,
                 !.prefix = IF a.name = NoneVal THEN a.prefix ELSE NoneVal]

\* the object created when conda.base.context is imported
ImportedContext ==
  [oid |-> 1, argparse_args |-> NoArgs, inits |-> 1,
   external_plugins |-> TRUE]

\* context.__init__(argparse_args=args) called on the object itself: the
\* same object afterwards, initialised once more, holding args
reinit(obj, args) ==
  [obj EXCEPT !.argparse_args = args, !.inits = @ + 1]

NoOutcome ==
  [exit_code |-> -1, echoed |-> "", executed |-> <<>>,
   loggers |-> "not_initialized", warnings |-> {}]

\* plugins.py: the names no plugin may take
BUILTIN_COMMANDS ==
  {"list", "info", "create", "install", "remove", "update", "search", "env"}

\* the names plugins come with, and what get_subcommands() may give: a
\* mapping from some of them to their commands, or an exception
PluginNames == {"create", "env", "hello"}

PluginSubcommands ==
  {[fails |-> FALSE, names |-> n] : n \in SUBSET PluginNames}
    \cup {[fails |-> TRUE, names |-> {}]}

CommandNames == BUILTIN_COMMANDS \cup PluginNames

NoApp == [n \in CommandNames |-> "none"]

\* main_impl: app.command(name=...) for the seven commands and
\* app.add_typer(cmd_env.env_app, name="env")
main_impl_commands ==
  [n \in CommandNames |->
     IF n \in {"list", "info", "create", "install", "remove", "update",
               "search", "env"}
     THEN "builtin" ELSE "none"]

\* register_plugin_commands registering every plugin command, whatever its
\* name
override_register_plugin_commands(typer_app, subcommands) ==
  IF subcommands.fails
  THEN [app |-> typer_app, warnings |-> {}]
  ELSE [app |-> [n \in DOMAIN typer_app |->
                   IF n \in subcommands.names THEN "plugin"
                   ELSE typer_app[n]],
        warnings |-> {}]

\* register_plugin_commands: nothing is registered when get_subcommands()
\* raises; a name among BUILTIN_COMMANDS is warned about and skipped, any
\* other is registered (the outcome does not depend on the order in which
\* the mapping is walked)
register_plugin_commands(typer_app, subcommands) ==
  IF subcommands.fails
  THEN [app |-> typer_app, warnings |-> {}]
  ELSE [app |-> [n \in DOMAIN typer_app |->
                   IF n \in subcommands.names /\ n \notin BUILTIN_COMMANDS
                   THEN "plugin"
                   ELSE typer_app[n]],
        warnings |-> subcommands.names \cap BUILTIN_COMMANDS]

(***************************************************************************)
(* Calls into conda/reporters.py and conda/cli_new/helpers.py.             *)
(***************************************************************************)
\* a call with all its fields: fn the function, shape how the arguments are
\* passed, and what the function works on
IdleCall ==
  [fn |-> "none", shape |-> "", style |-> "None", data |-> "",
   reporters |-> <<>>, name |-> NoneVal, prefix |-> NoneVal]

NoRet ==
  [outcome |-> "pending", message |-> <<>>, value |-> NoneVal,
   visited |-> <<>>, resolved |-> <<>>]

\* the reporter backends and outputs the plugin manager knows, with the
\* styles each backend's renderer defines; any other name looks up as None
ReporterBackends == {"dummy", "console"}
ReporterOutputs == {"stdout", "file"}

renderer_styles(backend) ==
  IF backend = "dummy" THEN {"default", "list", "table"}
  ELSE IF backend = "console" THEN {"default", "table"}
  ELSE {}

get_reporter_backend(name) == IF name \in ReporterBackends THEN name ELSE "None"
get_reporter_output(name) == IF name \in ReporterOutputs THEN name ELSE "None"

NoStreams == [o \in ReporterOutputs |-> <<>>]

\* the entries the reporters setting may hold, and the settings
ReporterSettings ==
  [backend : ReporterBackends \cup {"missing"},
   output : ReporterOutputs \cup {"missing"}]

RECURSIVE SettingsOfLen(_)
SettingsOfLen(n) ==
  IF n = 0 THEN {<<>>}
  ELSE {Append(l, e) : l \in SettingsOfLen(n - 1), e \in ReporterSettings}

\* the ways render is called: render(data, style=s), render(data,
\* reporters, style=s) and render(data, s); s may be None
RenderCalls ==
  {[IdleCall EXCEPT !.fn = "render", !.shape = sh, !.style = st,
                    !.data = "test-string", !.reporters = l] :
     sh \in {"keyword_style", "with_reporters", "positional_style"},
     st \in {"None", "list", "non_existent_view"},
     l \in UNION {SettingsOfLen(n) : n \in 0..MaxReporters}}

\* how Python binds the arguments to render(data, reporters, style=None):
\* without a second positional argument the call fails, and a style passed
\* as the second positional argument becomes reporters
bind_render(c) ==
  CASE c.shape = "keyword_style" ->
         [ok |-> FALSE, style |-> "None"]
    [] c.shape = "positional_style" ->
         [ok |-> TRUE, style |-> "None"]
    [] OTHER ->
         [ok |-> TRUE, style |-> c.style]

\* the loop of render from entry i on; out is what the streams hold so far,
\* visited what became of the entries before i.  What is written is the
\* result of the renderer's method, kept as the backend, the method and the
\* data it was called on.
RECURSIVE render_from(_, _, _, _, _, _)
render_from(settings, i, style, data, out, visited) ==
  IF i > Len(settings)
  THEN [ret |-> [NoRet EXCEPT !.outcome = "returned", !.visited = visited],
        streams |-> out]
  ELSE LET reporter == get_reporter_backend(settings[i].backend)
           output == get_reporter_output(settings[i].output)
           method == IF style = "None" THEN "default" ELSE style
       IN  IF reporter = "None" \/ output = "None"
           THEN render_from(settings, i + 1, style, data, out,
                            Append(visited, "skipped"))
           ELSE IF method \notin renderer_styles(reporter)
           THEN [ret |-> [NoRet EXCEPT
                            !.outcome = "AttributeError",
                            !.message =
                              <<style, "is not a valid reporter backend style">>,
                            !.visited = Append(visited, "raised")],
                 streams |-> out]
           ELSE render_from(settings, i + 1, style, data,
                            [out EXCEPT
                               ![output] =
                                 Append(@, [entry |-> i, backend |-> reporter,
                                            method |-> method,
                                            data |-> data])],
                            Append(visited, "wrote"))

\* render ending its loop at the first entry that does not resolve
stop_at_missing_render(c) ==
  LET b == bind_render(c)
      missing == {i \in 1..Len(c.reporters) :
                    \/ get_reporter_backend(c.reporters[i].backend) = "None"
                    \/ get_reporter_output(c.reporters[i].output) = "None"}
      upto == IF missing = {} THEN Len(c.reporters)
              ELSE (CHOOSE i \in missing : \A j \in missing : i <= j) - 1
  IN  IF ~b.ok
      THEN [ret |-> [NoRet EXCEPT !.outcome = "TypeError"],
            streams |-> NoStreams]
      ELSE render_from(SubSeq(c.reporters, 1, upto), 1, b.style, c.data,
                       NoStreams, <<>>)

\* the entries of settings whose backend and output both resolve
resolving(settings) ==
  {i \in 1..Len(settings) :
     /\ get_reporter_backend(settings[i].backend) # "None"
     /\ get_reporter_output(settings[i].output) # "None"}

\* reporters.render, called as c says
render(c) ==
  LET b == bind_render(c)
  IN  IF ~b.ok
      THEN [ret |-> [NoRet EXCEPT !.outcome = "TypeError"],
            streams |-> NoStreams]
      ELSE render_from(c.reporters, 1, b.style, c.data, NoStreams, <<>>)

\* Python's truth of a str | None
truthy(v) == v # NoneVal /\ v # Scalar("")

HelperCalls ==
  {[IdleCall EXCEPT !.fn = f, !.name = n, !.prefix = p] :
     f \in {"validate_prefix_name", "get_prefix"},
     n \in {NoneVal, Scalar(""), Scalar("myenv")},
     p \in {NoneVal, Scalar(""), Scalar("/opt/myenv")}}

\* helpers.validate_prefix_name
validate_prefix_name(name, prefix) ==
  IF truthy(name) /\ truthy(prefix)
  THEN [NoRet EXCEPT
          !.outcome = "BadParameter",
          !.message = <<"Cannot specify both --name and --prefix">>]
  ELSE [NoRet EXCEPT !.outcome = "returned"]

\* helpers.get_prefix; resolved lists what was asked for a prefix, value is
\* the name that was located or the prefix handed back
get_prefix(name, prefix) ==
  IF truthy(name) /\ truthy(prefix)
  THEN [NoRet EXCEPT
          !.outcome = "BadParameter",
          !.message = <<"Cannot specify both --name and --prefix">>]
  ELSE IF truthy(name)
  THEN [NoRet EXCEPT !.outcome = "returned", !.value = name,
                     !.resolved = <<"locate_prefix_by_name">>]
  ELSE IF truthy(prefix)
  THEN [NoRet EXCEPT !.outcome = "returned", !.value = prefix]
  ELSE [NoRet EXCEPT !.outcome = "returned",
                     !.resolved = <<"context.target_prefix">>]

\* no library call is being made
LibIdle ==
  /\ call = IdleCall
  /\ ret = NoRet
  /\ streams = NoStreams

(***************************************************************************)
(* The state machine: one process, which builds its Context from its       *)
(* command line and file list (again whenever it re-initialises) and reads *)
(* it.                                                                     *)
(***************************************************************************)
NoRes ==
  [op |-> "none", key |-> "", outcome |-> "none", value |-> NoneVal,
   origin |-> -1, names |-> "", message |-> <<>>, warned |-> <<>>,
   calls |-> <<>>]

OptArgs ==
  {[none |-> TRUE, ns |-> EmptyDoc]}
    \cup {[none |-> FALSE, ns |-> a] : a \in ArgsSet}

OptFiles ==
  {[none |-> TRUE, files |-> <<>>]}
    \cup {[none |-> FALSE, files |-> l] : l \in PathLists}

\* source lists a caller of Context(...) assembles itself
Layouts == {<<"file", "cli">>, <<"cli", "file">>, <<"file">>}

\* the process either calls create_context(args_obj, extra_config_files) or
\* assembles ConfigFileSource(file_type, config_files), CLIConfigSource(ns)
\* and Context(...) itself
Invocations ==
  {[entry |-> "create_context", args_obj |-> a, extra_config_files |-> e,
    layout |-> <<>>, file_type |-> "yaml", config_files |-> <<>>] :
      a \in OptArgs, e \in OptFiles}
    \cup
  {[entry |-> "Context", args_obj |-> [none |-> FALSE, ns |-> a],
    extra_config_files |-> [none |-> TRUE, files |-> <<>>],
    layout |-> l, file_type |-> t, config_files |-> fl] :
      a \in ArgsSet, l \in Layouts, t \in FileTypes, fl \in PathLists}

\* the paths an invocation can come to read
Referenced(inv) ==
  IF inv.entry = "create_context"
  THEN {SystemSearchPath[i] : i \in 1..Len(SystemSearchPath)}
         \cup {inv.extra_config_files.files[i] :
                 i \in 1..Len(inv.extra_config_files.files)}
  ELSE {inv.config_files[i] : i \in 1..Len(inv.config_files)}

\* Paths are names: a list using them in another order is the same list with
\* the files renamed.  Of the lists that differ only by such a renaming, the
\* one naming the paths outside the system search path in increasing order
\* is kept.
InOrder(l, from) == \A i \in 1..Len(l) : l[i] = from + i - 1

Canonical(inv) ==
  IF inv.entry = "create_context"
  THEN InOrder(SelectSeq(inv.extra_config_files.files,
                         LAMBDA p : \A i \in 1..Len(SystemSearchPath) :
                                      p # SystemSearchPath[i]),
               Len(SystemSearchPath) + 1)
  ELSE InOrder(inv.config_files, 1)

\* no cx command line is running
CliIdle ==
  /\ argv = [verbose |-> 0, debug |-> FALSE, trace |-> FALSE,
             no_plugins |-> FALSE, command |-> "list", name |-> NoneVal,
             prefix |-> NoneVal]
  /\ pc = "start"
  /\ base_context = ImportedContext
  /\ outcome = NoOutcome
  /\ plugin_subcommands = [fails |-> FALSE, names |-> {}]
  /\ app = NoApp

\* a path the process never reads is left out of the disk
Init ==
  /\ invocation \in Invocations
  /\ Canonical(invocation)
  /\ fs \in [Paths -> FileStates]
  /\ \A p \in Paths \ Referenced(invocation) : fs[p].st = "absent"
  /\ mergeDirection \in {"first_wins", "last_wins"}
  /\ context = NoContext
  /\ log = <<>>
  /\ raised = "none"
  /\ res = NoRes
  /\ prev = NoRes
  /\ CliIdle
  /\ LibIdle

\* context = create_context(args_obj, extra_config_files)
CreateContext ==
  /\ invocation.entry = "create_context"
  /\ LET r == create_context(invocation.args_obj,
                             invocation.extra_config_files)
     IN  /\ Len(log) + Len(r.logged) <= MaxLog
         /\ log' = log \o r.logged
         /\ IF r.ret = "raise"
            THEN /\ raised' = r.exc
                 /\ UNCHANGED <<context, res>>
            ELSE /\ raised' = "none"
                 /\ context' = r.ctx
                 /\ res' = NoRes
  /\ UNCHANGED <<fs, mergeDirection, invocation, prev>>
  /\ UNCHANGED <<cli_vars, lib_vars>>

\* context = Context(SystemConfiguration(), sources), the sources being a
\* ConfigFileSource(file_type, config_files) and a CLIConfigSource(args_obj)
\* in the order the caller lists them
BuildContext ==
  /\ invocation.entry = "Context"
  /\ LET f == ConfigFileSource_init(invocation.file_type,
                                    invocation.config_files)
         c == CLIConfigSource_init(invocation.args_obj.ns)
         sources == [i \in 1..Len(invocation.layout) |->
                       IF invocation.layout[i] = "file" THEN f.src ELSE c]
     IN  /\ Len(log) + Len(f.logged) <= MaxLog
         /\ log' = log \o f.logged
         /\ IF f.ret = "raise"
            THEN /\ raised' = f.exc
                 /\ UNCHANGED <<context, res>>
            ELSE /\ raised' = "none"
                 /\ context' = Context_init(SystemConfiguration, sources)
                 /\ res' = NoRes
  /\ UNCHANGED <<fs, mergeDirection, invocation, prev>>
  /\ UNCHANGED <<cli_vars, lib_vars>>

\* the lookup answering from what it returned for the same key before
GetAttr_cached(item) ==
  /\ context.built
  /\ res' = IF prev.op = "getattr" /\ prev.key = item THEN prev
            ELSE Context_getattr(context, item)
  /\ UNCHANGED <<fs, mergeDirection, invocation, context, log, raised, prev>>
  /\ UNCHANGED <<cli_vars, lib_vars>>

\* the lookup storing the value it found on the Context
GetAttr_memoising(item) ==
  /\ context.built
  /\ res' = Context_getattr(context, item)
  /\ context' =
       IF res'.outcome = "value"
       THEN [context EXCEPT
               !.system_config.attrs = (item :> res'.value) @@ @]
       ELSE context
  /\ UNCHANGED <<fs, mergeDirection, invocation, log, raised, prev>>
  /\ UNCHANGED <<cli_vars, lib_vars>>

\* getattr(context, item), item not being an attribute defined on Context
GetAttr(item) ==
  /\ context.built
  /\ res' = Context_getattr(context, item)
  /\ UNCHANGED <<fs, mergeDirection, invocation, context, log, raised, prev>>
  /\ UNCHANGED <<cli_vars, lib_vars>>

\* context.channels
Channels ==
  /\ context.built
  /\ res' = Context_get_channel_names(context)
  /\ UNCHANGED <<fs, mergeDirection, invocation, context, log, raised, prev>>
  /\ UNCHANGED <<cli_vars, lib_vars>>

\* context.channel_parameters
ChannelParameters ==
  /\ context.built
  /\ res' = Context_channel_parameters(context)
  /\ UNCHANGED <<fs, mergeDirection, invocation, context, log, raised, prev>>
  /\ UNCHANGED <<cli_vars, lib_vars>>

\* context.experimental_solver
ExperimentalSolver ==
  /\ context.built
  /\ res' = Context_experimental_solver(context)
  /\ UNCHANGED <<fs, mergeDirection, invocation, context, log, raised, prev>>
  /\ UNCHANGED <<cli_vars, lib_vars>>

\* the Namespace with quiet set to "no"
with_quiet_off(ns) ==
  [k \in (DOMAIN ns) \cup {"quiet"} |->
     IF k = "quiet" THEN Scalar("no") ELSE ns[k]]

\* The caller of create_context, having read quiet, sets quiet on the
\* Namespace it passed: args_obj.quiet = "no".  The CLIConfigSource keeps a
\* reference to that object (self.args_obj = args_obj), not a copy.
SetArg ==
  /\ context.built
  /\ invocation.entry = "create_context"
  /\ ~invocation.args_obj.none
  /\ res.op = "getattr"
  /\ res.key = "quiet"
  /\ with_quiet_off(invocation.args_obj.ns) # invocation.args_obj.ns
  /\ invocation' =
       [invocation EXCEPT !.args_obj.ns = with_quiet_off(@)]
  /\ context' =
       [context EXCEPT
          !.config_sources =
            [i \in 1..Len(@) |->
               IF @[i].kind = "cli"
               THEN [@[i] EXCEPT !.args_obj = with_quiet_off(@)]
               ELSE @[i]]]
  /\ prev' = res
  /\ res' = NoRes
  /\ UNCHANGED <<fs, mergeDirection, log, raised>>
  /\ UNCHANGED <<cli_vars, lib_vars>>

Next ==
  \/ CreateContext
  \/ BuildContext
  \/ \E item \in LookupKeys : GetAttr(item)
  \/ Channels
  \/ ChannelParameters
  \/ ExperimentalSolver
  \/ SetArg

Spec == Init /\ [][Next]_vars

(***************************************************************************)
(* The run of cx: main_impl, then typer calling pre_command_callback and   *)
(* the command.                                                            *)
(***************************************************************************)
\* no Context of conda/config is in play
ConfigIdle ==
  /\ fs = [p \in Paths |-> [st |-> "absent", doc |-> EmptyDoc]]
  /\ mergeDirection = "first_wins"
  /\ invocation =
       [entry |-> "create_context",
        args_obj |-> [none |-> TRUE, ns |-> EmptyDoc],
        extra_config_files |-> [none |-> TRUE, files |-> <<>>],
        layout |-> <<>>, file_type |-> "yaml", config_files |-> <<>>]
  /\ context = NoContext
  /\ log = <<>>
  /\ raised = "none"
  /\ res = NoRes
  /\ prev = NoRes

CliInit ==
  /\ argv \in ArgvSet
  /\ pc = "start"
  /\ base_context = ImportedContext
  /\ outcome = NoOutcome
  /\ plugin_subcommands \in PluginSubcommands
  /\ app = NoApp
  /\ ConfigIdle
  /\ LibIdle

\* main_impl: the built-in commands, the env commands and the plugin
\* commands are registered
RegisterCommands ==
  /\ pc = "start"
  /\ LET r == register_plugin_commands(main_impl_commands,
                                         plugin_subcommands)
     IN  /\ app' = r.app
         /\ outcome' = [outcome EXCEPT !.warnings = r.warnings]
  /\ pc' = "registered"
  /\ UNCHANGED <<argv, base_context, plugin_subcommands>>
  /\ UNCHANGED <<config_vars, lib_vars>>

\* main_impl: init_loggers() reads context.json and context.log_level from
\* the context as it stands
InitLoggers ==
  /\ pc = "registered"
  /\ outcome' = [outcome EXCEPT !.loggers = base_context.argparse_args.kind]
  /\ pc' = "app"
  /\ UNCHANGED <<argv, base_context, plugin_subcommands, app>>
  /\ UNCHANGED <<config_vars, lib_vars>>

\* pre_command_callback, first pass: context.__init__(argparse_args=pre_args)
PreCommandCallback_first_pass ==
  /\ pc = "app"
  /\ base_context' = reinit(base_context, pre_args(argv))
  /\ pc' = "first_pass"
  /\ UNCHANGED <<argv, outcome, plugin_subcommands, app>>
  /\ UNCHANGED <<config_vars, lib_vars>>

\* pre_command_callback: if context.no_plugins, the external plugins are
\* disabled
PreCommandCallback_plugins ==
  /\ pc = "first_pass"
  /\ base_context' =
       IF base_context.argparse_args.no_plugins
       THEN [base_context EXCEPT !.external_plugins = FALSE]
       ELSE base_context
  /\ pc' = "plugins"
  /\ UNCHANGED <<argv, outcome, plugin_subcommands, app>>
  /\ UNCHANGED <<config_vars, lib_vars>>

\* pre_command_callback, second pass: context.__init__ once more
PreCommandCallback_second_pass ==
  /\ pc = "plugins"
  /\ base_context' = reinit(base_context, pre_args(argv))
  /\ pc' = "command"
  /\ UNCHANGED <<argv, outcome, plugin_subcommands, app>>
  /\ UNCHANGED <<config_vars, lib_vars>>

\* cx create initialising the context and calling execute before it looks
\* at --name and --prefix
Create_validate_late ==
  /\ pc = "command"
  /\ argv.command = "create"
  /\ base_context' = reinit(base_context, create_args(argv))
  /\ IF argv.name = NoneVal /\ argv.prefix = NoneVal
     THEN outcome' =
            [outcome EXCEPT
               !.executed = <<create_args(argv)>>,
               !.echoed = "Error: Either --name or --prefix is required",
               !.exit_code = 1]
     ELSE outcome' =
            [outcome EXCEPT !.executed = <<create_args(argv)>>,
                            !.exit_code = 0]
  /\ pc' = "exit"
  /\ UNCHANGED <<argv, plugin_subcommands, app>>
  /\ UNCHANGED <<config_vars, lib_vars>>

\* cx create
Create ==
  /\ pc = "command"
  /\ argv.command = "create"
  /\ IF argv.name = NoneVal /\ argv.prefix = NoneVal
     THEN /\ outcome' =
               [outcome EXCEPT
                  !.echoed = "Error: Either --name or --prefix is required",
                  !.exit_code = 1]
          /\ UNCHANGED base_context
     ELSE /\ base_context' = reinit(base_context, create_args(argv))
          /\ outcome' =
               [outcome EXCEPT !.executed = <<create_args(argv)>>,
                               !.exit_code = 0]
  /\ pc' = "exit"
  /\ UNCHANGED <<argv, plugin_subcommands, app>>
  /\ UNCHANGED <<config_vars, lib_vars>>

\* cx list: execute is called, the context is left as it is
ListPackages ==
  /\ pc = "command"
  /\ argv.command = "list"
  /\ outcome' =
       [outcome EXCEPT !.executed = <<[NoArgs EXCEPT !.kind = "list"]>>,
                       !.exit_code = 0]
  /\ pc' = "exit"
  /\ UNCHANGED <<argv, base_context, plugin_subcommands, app>>
  /\ UNCHANGED <<config_vars, lib_vars>>

CliNext ==
  \/ RegisterCommands
  \/ InitLoggers
  \/ PreCommandCallback_first_pass
  \/ PreCommandCallback_plugins
  \/ PreCommandCallback_second_pass
  \/ Create
  \/ ListPackages

CliSpec == CliInit /\ [][CliNext]_vars

(***************************************************************************)
(* One call into the library: render, validate_prefix_name or get_prefix.  *)
(***************************************************************************)
LibInit ==
  /\ call \in RenderCalls \cup HelperCalls
  /\ ret = NoRet
  /\ streams = NoStreams
  /\ ConfigIdle
  /\ CliIdle

\* reporters.render(...)
Render ==
  /\ call.fn = "render"
  /\ ret.outcome = "pending"
  /\ LET r == render(call)
     IN  /\ ret' = r.ret
         /\ streams' = r.streams
  /\ UNCHANGED call
  /\ UNCHANGED <<config_vars, cli_vars>>

\* validate_prefix_name(name, prefix)
ValidatePrefixName ==
  /\ call.fn = "validate_prefix_name"
  /\ ret.outcome = "pending"
  /\ ret' = validate_prefix_name(call.name, call.prefix)
  /\ UNCHANGED <<call, streams>>
  /\ UNCHANGED <<config_vars, cli_vars>>

\* get_prefix(name, prefix)
GetPrefix ==
  /\ call.fn = "get_prefix"
  /\ ret.outcome = "pending"
  /\ ret' = get_prefix(call.name, call.prefix)
  /\ UNCHANGED <<call, streams>>
  /\ UNCHANGED <<config_vars, cli_vars>>

LibNext ==
  \/ Render
  \/ ValidatePrefixName
  \/ GetPrefix

LibSpec == LibInit /\ [][LibNext]_vars

(***************************************************************************)
(* Properties of the lookup.                                               *)
(***************************************************************************)
\* C1: a lookup returns the value held by the first source of the list
\* whose has_parameter(key) is true, whatever the later sources hold.
FirstMatchWins ==
  res.op = "getattr" =>
    \A i \in 1..Len(context.config_sources) :
      ( /\ has_parameter(context.config_sources[i], res.key)
        /\ \A j \in 1..(i - 1) :
             ~has_parameter(context.config_sources[j], res.key) )
      => /\ res.outcome = "value"
         /\ res.origin = i
         /\ res.value = get_parameter(context.config_sources[i], res.key)

\* two sources hold different values for the key that was read, and the
\* value of the earlier one came back
FirstMatchWinsWitness ==
  /\ res.op = "getattr"
  /\ Len(context.config_sources) = 2
  /\ has_parameter(context.config_sources[1], res.key)
  /\ has_parameter(context.config_sources[2], res.key)
  /\ get_parameter(context.config_sources[1], res.key)
       # get_parameter(context.config_sources[2], res.key)
  /\ res.value = get_parameter(context.config_sources[1], res.key)

\* C2 (as claimed): the CLI source answers has_parameter(key) = TRUE only
\* for a key that is defined and not left at NULL, so a lookup never returns
\* the NULL of a CLI source.
UnsetSentinelIsAbsent ==
  res.op = "getattr" =>
    /\ \A n \in 1..Len(res.calls) :
         ( /\ res.calls[n].op = "has_parameter"
           /\ res.calls[n].ret
           /\ context.config_sources[res.calls[n].src].kind = "cli" )
         => /\ res.key \in DOMAIN
                 context.config_sources[res.calls[n].src].args_obj
            /\ context.config_sources[res.calls[n].src].args_obj[res.key]
                 # NULL
    /\ res.value # NULL

\* C3: reading a key that no source has and the system configuration does
\* not define fails with an error naming the key; no value comes back.
UnknownKeyRaises ==
  ( /\ res.op = "getattr"
    /\ \A i \in 1..Len(context.config_sources) :
         ~has_parameter(context.config_sources[i], res.key)
    /\ res.key \notin DOMAIN context.system_config.attrs )
  => /\ res.outcome = "AttributeError"
     /\ res.names = res.key
     /\ res.origin = -1

\* a key held nowhere was read from a Context with two sources
UnknownKeyRaisesWitness ==
  /\ res.op = "getattr"
  /\ res.key = "no_such_key"
  /\ Len(context.config_sources) = 2
  /\ res.outcome = "AttributeError"

\* C4: the system configuration is asked only after every source answered
\* has_parameter(key) = FALSE; exactly then a key it defines resolves to its
\* value.
SystemConfigIsLast ==
  res.op = "getattr" =>
    /\ (res.origin = 0) <=>
         ( /\ \A i \in 1..Len(context.config_sources) :
                ~has_parameter(context.config_sources[i], res.key)
           /\ res.key \in DOMAIN context.system_config.attrs )
    /\ res.origin = 0 =>
         /\ res.outcome = "value"
         /\ res.value = context.system_config.attrs[res.key]
    /\ \A n \in 1..Len(res.calls) :
         res.calls[n].op = "hasattr_system" =>
           \A i \in 1..Len(context.config_sources) :
             \E m \in 1..(n - 1) : res.calls[m] = HasCall(i, FALSE)

\* a key only the system configuration defines was read through two sources
SystemConfigIsLastWitness ==
  /\ res.op = "getattr"
  /\ res.key = "active_env_name"
  /\ Len(context.config_sources) = 2
  /\ res.origin = 0
  /\ res.value = Scalar("base")

\* C5 (as claimed): a fact of the system configuration is returned even when
\* a source defines the same key.
SystemFactsNotOverridable ==
  ( /\ res.op = "getattr"
    /\ res.key \in DOMAIN context.system_config.attrs )
  => res.value = context.system_config.attrs[res.key]

\* C5 (amended): for a key the system configuration defines, the lookup
\* returns the system value when no source has the key, and the value of the
\* first source that has it otherwise.
SystemFactsAreFallback ==
  ( /\ res.op = "getattr"
    /\ res.key \in DOMAIN context.system_config.attrs )
  => IF \A i \in 1..Len(context.config_sources) :
          ~has_parameter(context.config_sources[i], res.key)
     THEN res.value = context.system_config.attrs[res.key]
     ELSE /\ res.origin \in 1..Len(context.config_sources)
          /\ has_parameter(context.config_sources[res.origin], res.key)
          /\ res.value =
               get_parameter(context.config_sources[res.origin], res.key)

\* the platform was read while the CLI source defines it differently
SystemFactsAreFallbackWitness ==
  /\ res.op = "getattr"
  /\ res.key = "platform"
  /\ res.origin > 0
  /\ context.config_sources[res.origin].kind = "cli"
  /\ res.value = Scalar("win-64")
  /\ context.system_config.attrs["platform"] = Scalar("linux-64")

(***************************************************************************)
(* Properties of the file merge.                                           *)
(***************************************************************************)
\* C6: the merged document holds, under channels, the concatenation of the
\* channel sequences of all the files read, in file-precedence order, each
\* file's entries in their own order and with their duplicates.
ChannelsAreConcatenated ==
  \A i \in 1..Len(context.config_sources) :
    LET src == context.config_sources[i]
        ordered == IF mergeDirection = "first_wins" THEN src.config_files
                   ELSE [n \in 1..Len(src.config_files) |->
                           src.config_files[Len(src.config_files) + 1 - n]]
        holders == SelectSeq(ordered,
                     LAMBDA p : /\ fs[p].st = "ok"
                                /\ "channels" \in DOMAIN fs[p].doc)
        offset(n) == LET before[m \in 0..Len(holders)] ==
                           IF m = 0 THEN 0
                           ELSE before[m - 1]
                                  + Len(fs[holders[m]].doc["channels"].q)
                     IN  before[n]
    IN  (src.kind = "file" /\ src.file_parser = "read_yaml_file") =>
          IF Len(holders) = 0 THEN "channels" \notin DOMAIN src.data
          ELSE /\ "channels" \in DOMAIN src.data
               /\ src.data["channels"].t = "seq"
               /\ Len(src.data["channels"].q) = offset(Len(holders))
               /\ \A n \in 1..Len(holders) :
                    \A e \in 1..Len(fs[holders[n]].doc["channels"].q) :
                      src.data["channels"].q[offset(n - 1) + e]
                        = fs[holders[n]].doc["channels"].q[e]

\* a file source merged two files that list different channels, and the
\* lookup of channels returned a sequence with the entries of both
ChannelsAreConcatenatedWitness ==
  /\ res.op = "getattr"
  /\ res.key = "channels"
  /\ res.origin > 0
  /\ LET src == context.config_sources[res.origin]
     IN  /\ src.kind = "file"
         /\ Len(src.config_files) = 2
         /\ fs[src.config_files[1]] = [st |-> "ok", doc |-> DocA]
         /\ fs[src.config_files[2]] = [st |-> "ok", doc |-> DocB]
         /\ Len(res.value.q) = 3

\* C9: a path of the file list that is not on disk is skipped: no error is
\* raised for it, and the source holds what it would hold had only the
\* existing files been listed, so every key resolves the same.
MissingFileIsSkipped ==
  /\ raised # "FileNotFoundError"
  /\ \A i \in 1..Len(context.config_sources) :
       LET src == context.config_sources[i]
       IN  src.kind = "file" =>
             src.data =
               ConfigFileSource_init(src.file_type,
                 SelectSeq(src.config_files, LAMBDA p : fs[p].st # "absent")
               ).src.data
  /\ res.op = "getattr" =>
       LET only_existing ==
             [context EXCEPT !.config_sources =
                [i \in 1..Len(context.config_sources) |->
                   IF context.config_sources[i].kind = "file"
                   THEN ConfigFileSource_init(
                          context.config_sources[i].file_type,
                          SelectSeq(context.config_sources[i].config_files,
                                    LAMBDA p : fs[p].st # "absent")).src
                   ELSE context.config_sources[i]]]
           r == Context_getattr(only_existing, res.key)
       IN  /\ res.outcome = r.outcome
           /\ res.value = r.value
           /\ res.origin = r.origin

\* a Context was built over one existing file and one absent path, and a key
\* was resolved from the file source
MissingFileIsSkippedWitness ==
  /\ res.op = "getattr"
  /\ res.outcome = "value"
  /\ res.origin > 0
  /\ LET src == context.config_sources[res.origin]
     IN  /\ src.kind = "file"
         /\ Len(src.config_files) = 2
         /\ \E a, b \in 1..2 :
              /\ fs[src.config_files[a]].st = "absent"
              /\ fs[src.config_files[b]].st = "ok"

\* C10: a file that exists but does not parse contributes nothing and does
\* not end the construction: the source holds what the other files give,
\* and the log holds a record naming the failing file.
MalformedFileIsIsolated ==
  /\ raised # "YAMLError"
  /\ (invocation.file_type = "yaml" /\ Len(log) > 0) => context.built
  /\ \A i \in 1..Len(context.config_sources) :
       LET src == context.config_sources[i]
       IN  (src.kind = "file" /\ src.file_parser = "read_yaml_file") =>
             /\ src.data =
                  ConfigFileSource_init(src.file_type,
                    SelectSeq(src.config_files,
                              LAMBDA p : fs[p].st # "malformed")).src.data
             /\ \A n \in 1..Len(src.config_files) :
                  fs[src.config_files[n]].st = "malformed" =>
                    \E m \in 1..Len(log) :
                      log[m] = [exc |-> "YAMLError",
                                name |-> src.config_files[n]]

\* a Context was built over a file that does not parse and a well-formed
\* one, and a key of the well-formed file was resolved
MalformedFileIsIsolatedWitness ==
  /\ res.op = "getattr"
  /\ res.outcome = "value"
  /\ res.origin > 0
  /\ Len(log) > 0
  /\ LET src == context.config_sources[res.origin]
     IN  /\ src.kind = "file"
         /\ Len(src.config_files) = 2
         /\ \E a, b \in 1..2 :
              /\ fs[src.config_files[a]].st = "malformed"
              /\ fs[src.config_files[b]].st = "ok"
              /\ res.key \in DOMAIN fs[src.config_files[b]].doc
              /\ res.value = fs[src.config_files[b]].doc[res.key]

(***************************************************************************)
(* Properties of the channel views.                                        *)
(***************************************************************************)
\* C11: Context.channels returns one name per entry of the raw channels
\* sequence, in the same order and with duplicates kept: a bare string gives
\* itself, a single-key mapping its key, so the lengths agree.
ChannelsNamesEveryEntry ==
  (res.op = "channels" /\ res.outcome = "value" /\ res.origin > 0) =>
    LET raw == get_parameter(context.config_sources[res.origin],
                             "channels").q
    IN  (\A n \in 1..Len(raw) : raw[n].m => Len(raw[n].k) = 1) =>
          /\ res.value.t = "seq"
          /\ Len(res.value.q) = Len(raw)
          /\ \A n \in 1..Len(raw) :
               /\ ~res.value.q[n].m
               /\ res.value.q[n].k = <<raw[n].k[1]>>

\* channels was read over a raw sequence holding the same bare name twice and
\* a single-key mapping
ChannelsNamesEveryEntryWitness ==
  /\ res.op = "channels"
  /\ res.origin > 0
  /\ get_parameter(context.config_sources[res.origin], "channels").q
       = <<Bare("defaults"), Bare("defaults"),
           MapEntry(<<"http://localhost">>, "fetch_type: blah")>>
  /\ res.value
       = SeqVal(<<Bare("defaults"), Bare("defaults"),
                  Bare("http://localhost")>>)

\* C12 (as claimed): when an entry of the raw channels sequence is a mapping
\* with no key or with several keys, reading channels fails with a
\* malformed-channel-entry error and returns no tuple.
MalformedEntryRaises ==
  ( /\ res.op = "channels"
    /\ res.origin > 0
    /\ \E n \in 1..Len(get_parameter(context.config_sources[res.origin],
                                     "channels").q) :
         LET e == get_parameter(context.config_sources[res.origin],
                                "channels").q[n]
         IN  e.m /\ Len(e.k) # 1 )
  => /\ res.outcome = "MalformedChannelEntry"
     /\ res.value = NoneVal

\* C13: channel_parameters returns the raw channels sequence as the winning
\* source holds it, options included, and reading channels leaves the
\* Context, hence what channel_parameters returns, as it was.
ChannelParametersIsRaw ==
  /\ [](( /\ res.op = "channel_parameters"
          /\ res.outcome = "value"
          /\ res.origin > 0 )
        => /\ has_parameter(context.config_sources[res.origin], "channels")
           /\ \A j \in 1..(res.origin - 1) :
                ~has_parameter(context.config_sources[j], "channels")
           /\ res.value = get_parameter(context.config_sources[res.origin],
                                        "channels"))
  /\ [][res'.op = "channels" => context' = context]_vars

\* channel_parameters returned the two entries of the test file, the mapping
\* with its options
ChannelParametersIsRawWitness ==
  /\ res.op = "channel_parameters"
  /\ res.value
       = SeqVal(<<Bare("defaults"),
                  MapEntry(<<"http://localhost">>, "fetch_type: blah")>>)

(***************************************************************************)
(* Properties of the sources and of the error of the lookup.               *)
(***************************************************************************)
\* C14 (as claimed): a Context built by create_context() without arguments
\* takes channels from CONDA_CHANNELS, split on "," in order and without
\* deduplication.
CreateContextReadsEnvironment ==
  ( /\ invocation.entry = "create_context"
    /\ invocation.args_obj.none
    /\ invocation.extra_config_files.none
    /\ res.op = "channels" )
  => /\ res.outcome = "value"
     /\ res.value.t = "seq"
     /\ LET names == decode_env(Environ["CONDA_CHANNELS"], ",")
        IN  /\ Len(res.value.q) = Len(names)
            /\ \A n \in 1..Len(names) : res.value.q[n] = Bare(names[n])

\* C15: a ConfigFileSource built from an empty list of paths holds the
\* empty document, answers has_parameter(key) = FALSE for every key, and is
\* never the source a lookup takes its value from.
EmptyFileSourceHoldsNothing ==
  \A i \in 1..Len(context.config_sources) :
    ( /\ context.config_sources[i].kind = "file"
      /\ context.config_sources[i].config_files = <<>> )
    => /\ context.config_sources[i].data = EmptyDoc
       /\ \A key \in LookupKeys :
            ~has_parameter(context.config_sources[i], key)
       /\ res.origin # i

\* a file source without paths stands first in the list, and a read passed
\* it over for the source behind it
EmptyFileSourceHoldsNothingWitness ==
  /\ Len(context.config_sources) = 2
  /\ context.config_sources[1].kind = "file"
  /\ context.config_sources[1].config_files = <<>>
  /\ res.op = "getattr"
  /\ res.origin = 2
  /\ res.calls[1] = HasCall(1, FALSE)

\* C19: for the map-valued key proxy_servers, what a file source answers is
\* a one-level merge of the maps of its files: every inner key some file
\* defines, each once, with the value of the highest-precedence file that
\* defines it.
GroupedSettingsShallowMerge ==
  ( /\ res.op = "getattr"
    /\ res.key = "proxy_servers"
    /\ res.origin > 0
    /\ context.config_sources[res.origin].kind = "file" )
  =>   LET src == context.config_sources[res.origin]
           docs == PrecedenceOrder(
                     parse_all(src.config_files, src.file_parser,
                               <<>>, <<>>).docs)
           holders == {n \in 1..Len(docs) :
                         "proxy_servers" \in DOMAIN docs[n]}
           first_with(ik) ==
             CHOOSE n \in holders :
               /\ ik \in inner_keys(docs[n]["proxy_servers"])
               /\ \A m \in holders :
                    ik \in inner_keys(docs[m]["proxy_servers"]) => n <= m
           merged == res.value
       IN  /\ holders # {}
           /\ merged.t = "map"
           /\ inner_keys(merged)
                = UNION {inner_keys(docs[n]["proxy_servers"]) : n \in holders}
           /\ Len(merged.q) = Cardinality(inner_keys(merged))
           /\ \A ik \in inner_keys(merged) :
                inner_get(merged, ik)
                  = inner_get(docs[first_with(ik)]["proxy_servers"], ik)

\* two files define proxy_servers with one inner key in common: the read
\* returns the common key from one file and an inherited key from each
GroupedSettingsShallowMergeWitness ==
  /\ res.op = "getattr"
  /\ res.key = "proxy_servers"
  /\ res.outcome = "value"
  /\ inner_keys(res.value) = {"http", "https", "ftp"}
  /\ inner_get(res.value, "http") = "proxy-a"
  /\ inner_get(res.value, "https") = "secure-a"
  /\ inner_get(res.value, "ftp") = "ftp-b"

\* C20 (as claimed): the error for a key found nowhere carries the key and
\* the kinds of the sources that were consulted, one per source, in order.
NotFoundListsSourceKinds ==
  (res.op = "getattr" /\ res.outcome = "AttributeError") =>
    res.message
      = <<res.key>>
          \o [i \in 1..Len(context.config_sources) |->
                context.config_sources[i].kind]

(***************************************************************************)
(* Properties of rebuilding and of reading.                                *)
(***************************************************************************)
\* C16 (as claimed): whenever the run initialises its configuration again,
\* the process-wide name comes to refer to another object; the object it
\* referred to is not changed in place.
RebuildSwapsReference ==
  [][ base_context'.inits # base_context.inits
      => base_context'.oid # base_context.oid ]_vars

\* C17: a read made after the caller changed its Namespace returns what the
\* sources hold now (the value of the first source that has the key, else
\* that of the system configuration), not what the read before the change
\* returned.
NoStaleRead ==
  (res.op = "getattr" /\ prev.op = "getattr") =>
    LET holders == {i \in 1..Len(context.config_sources) :
                      has_parameter(context.config_sources[i], res.key)}
    IN  IF holders # {}
        THEN /\ res.outcome = "value"
             /\ \E i \in holders :
                  /\ \A j \in holders : i <= j
                  /\ res.value = get_parameter(context.config_sources[i],
                                               res.key)
        ELSE IF res.key \in DOMAIN context.system_config.attrs
        THEN res.value = context.system_config.attrs[res.key]
        ELSE res.outcome = "AttributeError"

\* quiet was read as "yes", the caller set it to "no", and the next read of
\* quiet returned "no"
NoStaleReadWitness ==
  /\ prev.op = "getattr"
  /\ prev.key = "quiet"
  /\ prev.value = Scalar("yes")
  /\ res.op = "getattr"
  /\ res.key = "quiet"
  /\ res.value = Scalar("no")

GetFollowsHas ==
  res.op \in {"getattr", "channels", "channel_parameters",
              "experimental_solver"} =>
    /\ \A n \in 1..Len(res.calls) :
         res.calls[n].op = "get_parameter" =>
           /\ n > 1
           /\ res.calls[n - 1] = HasCall(res.calls[n].src, TRUE)
           /\ n = Len(res.calls)
    /\ \A n \in 1..Len(res.calls) :
         res.calls[n].op = "has_parameter" =>
           /\ res.calls[n].src = n
           /\ res.calls[n].ret =>
                /\ n + 1 = Len(res.calls)
                /\ res.calls[n + 1] = GetCall(n)
    /\ Cardinality({n \in 1..Len(res.calls) :
                      res.calls[n].op = "get_parameter"}) <= 1

\* both sources of the Context hold the key and the first one answered: the
\* lookup made two calls, both on the first source
GetFollowsHasWitness ==
  /\ res.op = "getattr"
  /\ Len(context.config_sources) = 2
  /\ has_parameter(context.config_sources[1], res.key)
  /\ has_parameter(context.config_sources[2], res.key)
  /\ res.calls = <<HasCall(1, TRUE), GetCall(1)>>

CreateNeedsNameOrPrefix ==
  ( /\ pc = "exit"
    /\ argv.command = "create"
    /\ argv.name = NoneVal
    /\ argv.prefix = NoneVal )
  => /\ outcome.exit_code = 1
     /\ outcome.executed = <<>>
     /\ base_context.argparse_args = pre_args(argv)
     /\ base_context.inits = ImportedContext.inits + 2

\* cx create without --name and --prefix ran to its end
CreateNeedsNameOrPrefixWitness ==
  /\ pc = "exit"
  /\ argv.command = "create"
  /\ argv.name = NoneVal
  /\ argv.prefix = NoneVal
  /\ outcome.exit_code = 1
  /\ outcome.echoed = "Error: Either --name or --prefix is required"

\* C25 (as claimed): when init_loggers reads context.json and
\* context.log_level, the context has been initialised from the parsed
\* global options.
LoggersFollowContext ==
  outcome.loggers # "not_initialized" => outcome.loggers = "pre_args"

\* C27 (as claimed): cx create given both --name and --prefix is rejected:
\* the context is not initialised again and execute is not called.
CreateRejectsNameAndPrefix ==
  ( /\ pc = "exit"
    /\ argv.command = "create"
    /\ argv.name # NoneVal
    /\ argv.prefix # NoneVal )
  => /\ outcome.executed = <<>>
     /\ outcome.exit_code # 0
     /\ base_context.argparse_args = pre_args(argv)

\* C30 (as claimed): the verbosity both initialisations of
\* pre_command_callback pass is 3 with --trace, else 2 with --debug, else
\* the number of -v flags, and it is never lower than that number.
VerbosityNeverLowered ==
  pc \in {"first_pass", "plugins", "command"} =>
    /\ base_context.argparse_args.verbosity
         = IF argv.trace THEN 3
           ELSE IF argv.debug THEN 2 ELSE argv.verbose
    /\ base_context.argparse_args.verbosity >= argv.verbose

\* where in the streams entry i of the reporters wrote
writes_by(i) ==
  {<<o, k>> \in ReporterOutputs \X (1..MaxReporters + 1) :
     /\ k <= Len(streams[o])
     /\ streams[o][k].entry = i}

\* C21 (as claimed): render called with a style name that the renderer of a
\* resolving entry does not define raises AttributeError with the message
\* '<style>' is not a valid reporter backend style, and that entry writes
\* nothing.
UnknownStyleRaises ==
  ( /\ call.fn = "render"
    /\ ret.outcome # "pending"
    /\ call.style # "None"
    /\ \E i \in resolving(call.reporters) :
         call.style \notin renderer_styles(call.reporters[i].backend) )
  => /\ ret.outcome = "AttributeError"
     /\ ret.message = <<call.style, "is not a valid reporter backend style">>
     /\ \A i \in resolving(call.reporters) :
          call.style \notin renderer_styles(call.reporters[i].backend)
            => writes_by(i) = {}

\* C22 (as claimed): render(data, style) visits the reporters in their
\* order and each entry whose backend and output resolve writes exactly
\* once, to its own output, what the renderer's method named by style
\* (default when style is None) makes of the data; render('test-string')
\* with one dummy backend on stdout writes the default rendering.
RenderWritesEachOnce ==
  ( /\ call.fn = "render"
    /\ ret.outcome # "pending"
    /\ \A i \in resolving(call.reporters) :
         call.style \in renderer_styles(call.reporters[i].backend)
                          \cup {"None"} )
  => /\ ret.outcome = "returned"
     /\ Len(ret.visited) = Len(call.reporters)
     /\ \A i \in 1..Len(call.reporters) :
          IF i \in resolving(call.reporters)
          THEN /\ Cardinality(writes_by(i)) = 1
               /\ \E k \in 1..Len(streams[call.reporters[i].output]) :
                    streams[call.reporters[i].output][k]
                      = [entry |-> i,
                         backend |-> call.reporters[i].backend,
                         method |-> IF call.style = "None" THEN "default"
                                    ELSE call.style,
                         data |-> call.data]
          ELSE writes_by(i) = {}
     /\ \A o \in ReporterOutputs :
          \A k, l \in 1..Len(streams[o]) :
            k < l => streams[o][k].entry < streams[o][l].entry

\* C26 (as claimed): validate_prefix_name raises BadParameter when both
\* name and prefix are given and when neither is; it returns normally only
\* when exactly one is given.
ValidatePrefixNameNeedsExactlyOne ==
  ( /\ call.fn = "validate_prefix_name"
    /\ ret.outcome # "pending" )
  => IF truthy(call.name) # truthy(call.prefix)
     THEN ret.outcome = "returned"
     ELSE ret.outcome = "BadParameter"

\* C29: in render, an entry whose backend or output looks up as None is
\* skipped: it causes no error and writes nothing, and the entries after it
\* are still processed, so that render stops early only at a resolving
\* entry that raises.
UnresolvedEntriesAreSkipped ==
  ( /\ call.fn = "render"
    /\ ret.outcome \notin {"pending", "TypeError"} )
  => /\ ret.outcome \in {"returned", "AttributeError"}
     /\ \A i \in 1..Len(call.reporters) :
          i \notin resolving(call.reporters) =>
            /\ writes_by(i) = {}
            /\ i <= Len(ret.visited) => ret.visited[i] = "skipped"
     /\ ret.outcome = "returned" =>
          /\ Len(ret.visited) = Len(call.reporters)
          /\ \A i \in resolving(call.reporters) :
               /\ ret.visited[i] = "wrote"
               /\ Cardinality(writes_by(i)) = 1
     /\ ret.outcome = "AttributeError" =>
          /\ Len(ret.visited) \in resolving(call.reporters)
          /\ ret.visited[Len(ret.visited)] = "raised"

\* the first entry names a backend nobody registered, the second is the
\* dummy backend on stdout: render returned, and only the second wrote
UnresolvedEntriesAreSkippedWitness ==
  /\ call.fn = "render"
  /\ call.shape = "with_reporters"
  /\ call.reporters = <<[backend |-> "missing", output |-> "stdout"],
                        [backend |-> "dummy", output |-> "stdout"]>>
  /\ ret.outcome = "returned"
  /\ ret.visited = <<"skipped", "wrote">>
  /\ Len(streams["stdout"]) = 1
  /\ streams["stdout"][1].entry = 2

====
